---- MODULE Spec2Model ----
(***************************************************************************)
(* PhotonHBT (PWGEM/PhotonMeson/Tasks/PhotonHBT.cxx): photon pairing for   *)
(* HBT correlations.  The task books one pair histogram list per accepted  *)
(* (pair type, cut1, cut2), pairs photon candidates of the same collision  *)
(* (SameEventPairing) and of different collisions of one mixing bin        *)
(* (MixedEventPairing), and fills the 5-tuple (qinv,qlong,qout,qside,kt).  *)
(*                                                                         *)
(* Units: posZ in cm as an integer; momenta as integer Cartesian vectors.  *)
(* A THnSparse is modelled by its number of entries; the records that were *)
(* filled are kept in history variables (sameLog, mixLog).  hZvtx_before   *)
(* and hZvtx_after are filled together with bins 1 and 4 of                *)
(* hCollisionCounter and are not kept apart from them.                     *)
(***************************************************************************)
EXTENDS Integers, Sequences, FiniteSets, TLC

VARIABLES
  pc,               \* "new" | "same" | "mixed" | "done" | "abort"
  option,           \* the process switches that are on
  ndepth,           \* Configurable ndepth
  fConfigPCMCuts,   \* Configurable cfgPCMCuts, tokenized
  fConfigPHOSCuts,  \* Configurable cfgPHOSCuts, tokenized
  fPairNames,       \* std::vector<std::string> fPairNames
  fPCMCuts,         \* std::vector<V0PhotonCut>
  fPHOSCuts,        \* std::vector<PHOSPhotonCut>
  pairLists,        \* names of the lists below fMainList/Pair/<pairname>
  hCollisionCounter,\* entries of bins 1..4 of Event/<pairname>/hCollisionCounter
  hs_q_same,        \* entries of hs_q_same per <<pairname, cut list name>>
  hs_q_mix,         \* entries of hs_q_mix per <<pairname, cut list name>>
  collisions,       \* the EMReducedEvents table of the data frame
  v0photons,        \* the V0 photon (PCM) candidates of the data frame
  phosclusters,     \* the PHOS cluster candidates of the data frame
  combinations,     \* MixedEventPairing: the event pairs selfCombinations yields
  icoll,            \* SameEventPairing: number of collisions iterated
  imix,             \* MixedEventPairing: number of event pairs iterated
  nev,              \* MixedEventPairing: int nev
  index_coll1,      \* MixedEventPairing: int index_coll1
  sameLog,          \* history: the collision iterated last and the pairs it gave
  mixLog,           \* history: one record per event pair iterated so far
  call              \* pure-function harness: the call and its result

vars == <<pc, option, ndepth, fConfigPCMCuts, fConfigPHOSCuts, fPairNames, fPCMCuts,
          fPHOSCuts, pairLists, hCollisionCounter, hs_q_same, hs_q_mix, collisions,
          v0photons, phosclusters, combinations, icoll, imix, nev, index_coll1, sameLog, mixLog, call>>

config == <<option, ndepth, fConfigPCMCuts, fConfigPHOSCuts>>

booked == <<fPairNames, fPCMCuts, fPHOSCuts, pairLists>>

tables == <<collisions, v0photons, phosclusters>>

(***************************************************************************)
(* Bounds of the model.                                                    *)
(***************************************************************************)
MaxEvents == 3    \* rows of the collision table
MaxOdd == 1       \* rows of the table that differ from the good event
MaxDepth == 1     \* ndepth is 0 or MaxDepth
MaxCand == 3      \* candidates of one subsystem in the fullest collision
MaxCuts == 2      \* longest configured cut list in the booking specification
MaxMom == 2       \* largest |component| of a candidate momentum

(***************************************************************************)
(* Pair types and subsystems.                                              *)
(***************************************************************************)
pairnames == <<"PCMPCM", "PHOSPHOS", "EMCEMC", "PCMPHOS", "PCMEMC", "PHOSEMC">>

PairType == {pairnames[i] : i \in DOMAIN pairnames}

\* the pair types with a process function
ProcessSwitches == {"PCMPCM", "PHOSPHOS", "PCMPHOS"}

\* the "same subsystem" test written out at lines 103, 228 and 325
IsSymmetric(pairtype) == pairtype \in {"PCMPCM", "PHOSPHOS", "EMCEMC"}

\* the subsystem of the first and of the second candidate of a pair type
Side1(pairtype) ==
  IF pairtype \in {"PCMPCM", "PCMPHOS", "PCMEMC"} THEN "PCM"
  ELSE IF pairtype \in {"PHOSPHOS", "PHOSEMC"} THEN "PHOS" ELSE "EMC"

Side2(pairtype) ==
  IF pairtype = "PCMPCM" THEN "PCM"
  ELSE IF pairtype \in {"PHOSPHOS", "PCMPHOS"} THEN "PHOS" ELSE "EMC"

(***************************************************************************)
(* Cuts.  A cut is a named predicate over a candidate; the cut classes and *)
(* the cut library are not part of this file.  A candidate carries a       *)
(* quality q and a cut accepts the candidates whose quality reaches its    *)
(* level.                                                                  *)
(***************************************************************************)
PCMCutNames == <<"analysis", "qc", "nocut">>

PHOSCutNames == <<"test02", "test03">>

CutLevel(name) == IF name \in {"nocut", "test02"} THEN 0 ELSE 1

GetCut(cutname) == [name |-> cutname, level |-> CutLevel(cutname)]

GetName(cut) == cut.name

IsSelected(cut, g) == g.q >= cut.level

Range(s) == {s[i] : i \in DOMAIN s}

RECURSIVE SeqsUpTo(_, _)
SeqsUpTo(S, n) ==
  IF n = 0 THEN {<<>>}
  ELSE LET shorter == SeqsUpTo(S, n - 1)
       IN shorter \cup {Append(s, x) : s \in {t \in shorter : Len(t) = n - 1}, x \in S}

\* DefinePCMCuts / DefinePHOSCuts: one cut per token, in order
DefineCuts(cutNames) == [i \in DOMAIN cutNames |-> GetCut(cutNames[i])]


RECURSIVE Flatten(_)
Flatten(ss) == IF ss = <<>> THEN <<>> ELSE Head(ss) \o Flatten(Tail(ss))

Abs(x) == IF x < 0 THEN -x ELSE x

(***************************************************************************)
(* The tables of a data frame.  A collision row holds the columns the task *)
(* reads; the candidate tables hold, for every collision, as many rows as  *)
(* the collision's ngpcm / ngphos column says, grouped by collision.       *)
(***************************************************************************)
GoodEvent ==
  [posZ |-> 0, multNTracksPV |-> 5, sel8 |-> TRUE, numContrib |-> 1,
   isPHOSCPVreadout |-> TRUE, ngpcm |-> MaxCand, ngphos |-> 2]

\* the good event and every event that differs from it in one respect
EventKinds ==
  {GoodEvent,
   [GoodEvent EXCEPT !.posZ = 10],
   [GoodEvent EXCEPT !.posZ = -11],
   [GoodEvent EXCEPT !.multNTracksPV = 15],
   [GoodEvent EXCEPT !.sel8 = FALSE],
   [GoodEvent EXCEPT !.numContrib = 0],
   [GoodEvent EXCEPT !.isPHOSCPVreadout = FALSE],
   [GoodEvent EXCEPT !.ngpcm = 0],
   [GoodEvent EXCEPT !.ngpcm = 1, !.ngphos = 1]}

\* row i of the table: its index and its collisionId
Row(kind, i) ==
  [index |-> i, collisionId |-> 100 + i, posZ |-> kind.posZ,
   multNTracksPV |-> kind.multNTracksPV, sel8 |-> kind.sel8,
   numContrib |-> kind.numContrib, isPHOSCPVreadout |-> kind.isPHOSCPVreadout,
   ngpcm |-> kind.ngpcm, ngphos |-> kind.ngphos]

Tables ==
  {[i \in 1..MaxEvents |-> Row(kinds[i], i)] :
     kinds \in {ks \in [1..MaxEvents -> EventKinds] :
                 Cardinality({i \in 1..MaxEvents : ks[i] # GoodEvent}) <= MaxOdd}}

NCand(collision, subsys) == IF subsys = "PCM" THEN collision.ngpcm ELSE collision.ngphos

RECURSIVE CandidateTable(_, _, _)
CandidateTable(colls, subsys, n) ==
  IF n = 0 THEN <<>>
  ELSE LET prev == CandidateTable(colls, subsys, n - 1)
       IN prev \o [k \in 1..NCand(colls[n], subsys) |->
                     [index |-> Len(prev) + k, collisionId |-> colls[n].collisionId,
                      q |-> k % 2]]

Photons(subsys) == IF subsys = "PCM" THEN v0photons ELSE phosclusters

Cuts(subsys) == IF subsys = "PCM" THEN fPCMCuts ELSE fPHOSCuts

\* photons.sliceBy(perCollision, collisionId)
sliceBy(photons, collisionId) == SelectSeq(photons, LAMBDA g : g.collisionId = collisionId)

(***************************************************************************)
(* init: fPairNames, the cuts and the histogram lists.                     *)
(***************************************************************************)
PushIf(names, enabled, name) == IF enabled THEN Append(names, name) ELSE names

PairNamesOf(options) ==
  PushIf(PushIf(PushIf(<<>>, "PCMPCM" \in options, "PCMPCM"),
                "PHOSPHOS" \in options, "PHOSPHOS"),
         "PCMPHOS" \in options, "PCMPHOS")

pair_cut_name(cut1, cut2) == GetName(cut1) \o "_" \o GetName(cut2)

\* every (cut1, cut2) gets a list, whatever the pair type
add_pair_histograms_all(pairname, cuts1, cuts2) ==
  {<<pairname, pair_cut_name(cuts1[i], cuts2[j])>> : i \in DOMAIN cuts1, j \in DOMAIN cuts2}

\* the lists add_pair_histograms adds below Pair/<pairname>
add_pair_histograms(pairname, cuts1, cuts2) ==
  UNION {{<<pairname, pair_cut_name(cuts1[i], cuts2[j])>> :
            j \in {k \in DOMAIN cuts2 :
                     ~(IsSymmetric(pairname) /\ GetName(cuts1[i]) # GetName(cuts2[k]))}}
         : i \in DOMAIN cuts1}

addhistograms(names, pcmCuts, phosCuts) ==
  UNION {CASE names[n] = "PCMPCM" -> add_pair_histograms(names[n], pcmCuts, pcmCuts)
           [] names[n] = "PHOSPHOS" -> add_pair_histograms(names[n], phosCuts, phosCuts)
           [] names[n] = "PCMPHOS" -> add_pair_histograms(names[n], pcmCuts, phosCuts)
           [] OTHER -> {}
         : n \in DOMAIN names}

init ==
  /\ pc = "new"
  /\ fPairNames' = PairNamesOf(option)
  /\ fPCMCuts' = DefineCuts(fConfigPCMCuts)
  /\ fPHOSCuts' = DefineCuts(fConfigPHOSCuts)
  /\ pairLists' = addhistograms(fPairNames', fPCMCuts', fPHOSCuts')
  /\ hCollisionCounter' = [p \in Range(fPairNames') |-> [k \in 1..4 |-> 0]]
  /\ hs_q_same' = [b \in pairLists' |-> 0]
  /\ hs_q_mix' = [b \in pairLists' |-> 0]
  /\ pc' = "same"
  /\ UNCHANGED <<config, tables, combinations, icoll, imix, nev, index_coll1, sameLog,
                 mixLog, call>>

(***************************************************************************)
(* IsSelectedPair: each candidate against its own cut; the pair types      *)
(* without a branch (the EMC ones) are accepted as they are.               *)
(***************************************************************************)
\* one passing candidate is enough
IsSelectedPairEither(pairtype, g1, g2, cut1, cut2) ==
  IF pairtype \in {"PCMPCM", "PHOSPHOS", "PCMPHOS"}
  THEN IsSelected(cut1, g1) \/ IsSelected(cut2, g2)
  ELSE TRUE

IsSelectedPair(pairtype, g1, g2, cut1, cut2) ==
  IF pairtype \in {"PCMPCM", "PHOSPHOS", "PCMPHOS"}
  THEN LET is_g1_passed == IsSelected(cut1, g1)
           is_g2_passed == IsSelected(cut2, g2)
       IN is_g1_passed /\ is_g2_passed
  ELSE TRUE

(***************************************************************************)
(* Index policies of combinations(): the index pairs in the order they are *)
(* produced.                                                               *)
(***************************************************************************)
RECURSIVE UpperFrom(_, _, _)
UpperFrom(i, j, n) ==
  IF i >= n THEN <<>>
  ELSE IF j > n THEN UpperFrom(i + 1, i + 2, n)
  ELSE <<<<i, j>>>> \o UpperFrom(i, j + 1, n)

\* the upper policy that is not strict: i <= j
CombinationsUpperIndexPolicy(t1, t2) ==
  SelectSeq(Flatten([i \in DOMAIN t1 |-> [j \in DOMAIN t2 |-> <<i, j>>]]),
            LAMBDA ij : ij[1] <= ij[2])

CombinationsStrictlyUpperIndexPolicy(t1, t2) ==
  UpperFrom(1, 2, IF Len(t1) < Len(t2) THEN Len(t1) ELSE Len(t2))

CombinationsFullIndexPolicy(t1, t2) ==
  Flatten([i \in DOMAIN t1 |-> [j \in DOMAIN t2 |-> <<i, j>>]])

\* the candidate pairs of one (cut1, cut2) under an index policy, as visit records
Visits(idx, cuts1, c1, cuts2, c2, photons1, photons2) ==
  [n \in DOMAIN idx |->
     [c1 |-> c1, c2 |-> c2, cut1 |-> cuts1[c1], cut2 |-> cuts2[c2],
      i |-> idx[n][1], j |-> idx[n][2],
      g1 |-> photons1[idx[n][1]], g2 |-> photons2[idx[n][2]]]]

\* the list hs_q_same / hs_q_mix is looked up in
FillKey(pairtype, r) == <<pairtype, pair_cut_name(r.cut1, r.cut2)>>

\* Fill of every record of fills, on the histograms h
FillAll(h, pairtype, fills) ==
  [b \in DOMAIN h |->
     h[b] + Cardinality({n \in DOMAIN fills : FillKey(pairtype, fills[n]) = b})]

\* FindObject of a list that was never added returns a null pointer
MissesList(h, pairtype, fills) ==
  \E n \in DOMAIN fills : FillKey(pairtype, fills[n]) \notin DOMAIN h

(***************************************************************************)
(* SameEventPairing, one collision of the loop per step.                   *)
(***************************************************************************)
\* the process function that is switched on
ThePairType == CHOOSE p \in ProcessSwitches : p \in option

\* the readout is asked for after the collision was counted
EventStageReadoutLate(pairtype, collision) ==
  IF pairtype \in {"PHOSPHOS", "PCMPHOS"} /\ ~collision.isPHOSCPVreadout THEN 1
  ELSE IF ~collision.sel8 THEN 1
  ELSE IF collision.numContrib < 1 THEN 2
  ELSE IF Abs(collision.posZ) > 10 THEN 3
  ELSE 4

\* the last hCollisionCounter bin the collision fills, 0 when it is skipped before
EventStage(pairtype, collision) ==
  IF pairtype \in {"PHOSPHOS", "PCMPHOS"} /\ ~collision.isPHOSCPVreadout THEN 0
  ELSE IF ~collision.sel8 THEN 1
  ELSE IF collision.numContrib < 1 THEN 2        \* numContrib() < 0.5
  ELSE IF Abs(collision.posZ) > 10 THEN 3
  ELSE 4

SameEventCombinations(pairtype, collision) ==
  LET photons1_coll == sliceBy(Photons(Side1(pairtype)), collision.collisionId)
      photons2_coll == sliceBy(Photons(Side2(pairtype)), collision.collisionId)
      cuts1 == Cuts(Side1(pairtype))
      cuts2 == Cuts(Side2(pairtype))
  IN IF IsSymmetric(pairtype)
     THEN Flatten([c \in DOMAIN cuts1 |->
            Visits(CombinationsStrictlyUpperIndexPolicy(photons1_coll, photons2_coll),
                   cuts1, c, cuts1, c, photons1_coll, photons2_coll)])
     ELSE Flatten(Flatten([c1 \in DOMAIN cuts1 |-> [c2 \in DOMAIN cuts2 |->
            Visits(CombinationsFullIndexPolicy(photons1_coll, photons2_coll),
                   cuts1, c1, cuts2, c2, photons1_coll, photons2_coll)]]))

\* what the history keeps of a visited candidate pair
Brief(r) == [c1 |-> r.c1, c2 |-> r.c2, i |-> r.i, j |-> r.j,
             g1 |-> r.g1.index, g2 |-> r.g2.index,
             id1 |-> r.g1.collisionId, id2 |-> r.g2.collisionId]

Briefs(rs) == [n \in DOMAIN rs |-> Brief(rs[n])]

SameEventStep ==
  /\ pc = "same"
  /\ icoll < Len(collisions)
  /\ LET pairtype == ThePairType
         collision == collisions[icoll + 1]
         stage == EventStage(pairtype, collision)
         enum == IF stage = 4 THEN SameEventCombinations(pairtype, collision) ELSE <<>>
         fills == SelectSeq(enum,
                    LAMBDA r : IsSelectedPair(pairtype, r.g1, r.g2, r.cut1, r.cut2))
     IN /\ hCollisionCounter' =
             [hCollisionCounter EXCEPT
                ![pairtype] = [k \in 1..4 |-> @[k] + IF k <= stage THEN 1 ELSE 0]]
        /\ hs_q_same' = FillAll(hs_q_same, pairtype, fills)
        /\ sameLog' = <<[collision |-> collision.index, stage |-> stage,
                         enum |-> Briefs(enum), fills |-> Briefs(fills)]>>
        /\ pc' = IF MissesList(hs_q_same, pairtype, fills) THEN "abort" ELSE "same"
  /\ icoll' = icoll + 1
  /\ UNCHANGED <<config, booked, tables, combinations, hs_q_mix, imix, nev, index_coll1,
                 mixLog, call>>

(***************************************************************************)
(* The mixing bins and the filtered collisions.                            *)
(***************************************************************************)
ConfVtxBins == <<-10, -8, -6, -4, -2, 0, 2, 4, 6, 8, 10>>

\* the last edge, 1e+10f, is above every value of the int column multNTracksPV
ConfMultBins == <<0, 10, 20, 40, 60, 80, 100, 200>>

\* the bin of v: the number of edges not above v, less one
BinOf(edges, v) == Cardinality({e \in DOMAIN edges : edges[e] <= v}) - 1

\* colBinning.getBin with ignoreOverflows = true: -1 outside the edges
getBin(collision) ==
  IF \/ collision.posZ < ConfVtxBins[1]
     \/ collision.posZ >= ConfVtxBins[Len(ConfVtxBins)]
     \/ collision.multNTracksPV < ConfMultBins[1]
  THEN -1
  ELSE BinOf(ConfVtxBins, collision.posZ)
       + (Len(ConfVtxBins) - 1) * BinOf(ConfMultBins, collision.multNTracksPV)

collisionFilter_common(collision) ==
  Abs(collision.posZ) < 10 /\ collision.numContrib > 0 /\ collision.sel8 = TRUE

collisionFilter_subsys(collision) ==
  \/ collision.ngpcm >= 2
  \/ collision.ngphos >= 2
  \/ (collision.ngpcm >= 1 /\ collision.ngphos >= 1)

filtered_collisions ==
  SelectSeq(collisions,
            LAMBDA c : collisionFilter_common(c) /\ collisionFilter_subsys(c))

categoryNeighbours == 1000

NBins == (Len(ConfVtxBins) - 1) * Len(ConfMultBins)

\* the rows with a bin, ordered by bin and then by index
RECURSIVE GroupedFrom(_, _)
GroupedFrom(table, bin) ==
  IF bin >= NBins THEN <<>>
  ELSE SelectSeq(table, LAMBDA c : getBin(c) = bin) \o GroupedFrom(table, bin + 1)

RECURSIVE BlockUpperFrom(_, _, _)
BlockUpperFrom(grouped, p, r) ==
  IF p >= Len(grouped) THEN <<>>
  ELSE IF \/ r > Len(grouped)
          \/ r - p > categoryNeighbours
          \/ getBin(grouped[r]) # getBin(grouped[p])
       THEN BlockUpperFrom(grouped, p + 1, p + 2)
  ELSE <<<<grouped[p], grouped[r]>>>> \o BlockUpperFrom(grouped, p, r + 1)

\* every pair of rows, whatever their bins
selfCombinationsNoBins(table) ==
  LET idx == UpperFrom(1, 2, Len(table))
  IN [n \in DOMAIN idx |-> <<table[idx[n][1]], table[idx[n][2]]>>]

\* soa::selfCombinations(colBinning, 1e+3, -1, table, table)
selfCombinations(table) == BlockUpperFrom(GroupedFrom(table, 0), 1, 2)

(***************************************************************************)
(* MixedEventPairing, one event pair of the loop per step.                 *)
(***************************************************************************)
\* the counts are asked of the first collision only
LacksCandidatesFirst(pairtype, collision1, collision2) ==
  IF pairtype = "PCMPCM" THEN collision1.ngpcm < 2
  ELSE IF pairtype = "PHOSPHOS" THEN collision1.ngphos < 2
  ELSE IF pairtype = "PCMPHOS" THEN collision1.ngpcm < 1 \/ collision1.ngphos < 1
  ELSE FALSE

\* the candidate counts asked of both collisions (the continue of lines 304-310)
LacksCandidates(pairtype, collision1, collision2) ==
  IF pairtype = "PCMPCM" THEN collision1.ngpcm < 2 \/ collision2.ngpcm < 2
  ELSE IF pairtype = "PHOSPHOS" THEN collision1.ngphos < 2 \/ collision2.ngphos < 2
  ELSE IF pairtype = "PCMPHOS"
       THEN \/ (collision1.ngpcm < 1 \/ collision1.ngphos < 1)
            \/ (collision2.ngpcm < 1 \/ collision2.ngphos < 1)
  ELSE FALSE

\* nev > ndepth: the pair is passed over
DepthReached(n, depth) == n > depth

MixedEventCombinations(pairtype, collision1, collision2) ==
  LET photons_coll1 == sliceBy(Photons(Side1(pairtype)), collision1.collisionId)
      photons_coll2 == sliceBy(Photons(Side2(pairtype)), collision2.collisionId)
      cuts1 == Cuts(Side1(pairtype))
      cuts2 == Cuts(Side2(pairtype))
  IN Flatten(Flatten([c1 \in DOMAIN cuts1 |-> [c2 \in DOMAIN cuts2 |->
       Visits(CombinationsFullIndexPolicy(photons_coll1, photons_coll2),
              cuts1, c1, cuts2, c2, photons_coll1, photons_coll2)]]))

\* the candidate loop without the comparison of the cut names
MixedAcceptsAnyCuts(pairtype, r) ==
  IsSelectedPair(pairtype, r.g1, r.g2, r.cut1, r.cut2)

\* the two continues inside the candidate loop (lines 325-330)
MixedAccepts(pairtype, r) ==
  /\ ~(IsSymmetric(pairtype) /\ GetName(r.cut1) # GetName(r.cut2))
  /\ IsSelectedPair(pairtype, r.g1, r.g2, r.cut1, r.cut2)

MixedEventBegin ==
  /\ pc = "same"
  /\ icoll = Len(collisions)
  /\ nev' = 0
  /\ index_coll1' = -999
  /\ combinations' = selfCombinations(filtered_collisions)
  /\ imix' = 0
  /\ pc' = "mixed"
  /\ UNCHANGED <<config, booked, tables, hCollisionCounter, hs_q_same, hs_q_mix, icoll,
                 sameLog, mixLog, call>>

MixedEventStep ==
  /\ pc = "mixed"
  /\ imix < Len(combinations)
  /\ LET pairtype == ThePairType
         collision1 == combinations[imix + 1][1]
         collision2 == combinations[imix + 1][2]
         nev0 == IF index_coll1 # collision1.collisionId THEN 0 ELSE nev
         outcome == IF DepthReached(nev0, ndepth) THEN "depth"
                    ELSE IF LacksCandidates(pairtype, collision1, collision2) THEN "count"
                    ELSE "paired"
         enum == IF outcome = "paired"
                 THEN MixedEventCombinations(pairtype, collision1, collision2)
                 ELSE <<>>
         fills == SelectSeq(enum, LAMBDA r : MixedAccepts(pairtype, r))
     IN /\ index_coll1' = collision1.collisionId
        /\ nev' = IF outcome = "paired" THEN nev0 + 1 ELSE nev0
        /\ hs_q_mix' = FillAll(hs_q_mix, pairtype, fills)
        /\ mixLog' = Append(mixLog,
                       [collision1 |-> collision1.index, collision2 |-> collision2.index,
                        anchor |-> index_coll1, nev |-> nev, outcome |-> outcome,
                        from |-> {<<fills[n].g1.collisionId, fills[n].g2.collisionId>> :
                                    n \in DOMAIN fills},
                        keys |-> {FillKey(pairtype, fills[n]) : n \in DOMAIN fills},
                        nfills |-> Len(fills)])
        /\ pc' = IF MissesList(hs_q_mix, pairtype, fills) THEN "abort" ELSE "mixed"
  /\ imix' = imix + 1
  /\ UNCHANGED <<config, booked, tables, combinations, hCollisionCounter, hs_q_same,
                 icoll, sameLog, call>>

MixedEventEnd ==
  /\ pc = "mixed"
  /\ imix = Len(combinations)
  /\ pc' = "done"
  /\ UNCHANGED <<config, booked, tables, combinations, hCollisionCounter, hs_q_same,
                 hs_q_mix, icoll, imix, nev, index_coll1, sameLog, mixLog, call>>

(***************************************************************************)
(* The task on one data frame: one process switch on, the cut lists of the *)
(* configuration, a table of MaxEvents collisions.                         *)
(***************************************************************************)
NoCall == [fn |-> "none"]

CutConfigs ==
  {[pcm |-> PCMCutNames, phos |-> PHOSCutNames],
   [pcm |-> <<"nocut">>, phos |-> <<"test03">>]}

Unbooked ==
  /\ pc = "new"
  /\ fPairNames = <<>>
  /\ fPCMCuts = <<>>
  /\ fPHOSCuts = <<>>
  /\ pairLists = {}
  /\ hCollisionCounter = <<>>
  /\ hs_q_same = <<>>
  /\ hs_q_mix = <<>>
  /\ combinations = <<>>
  /\ icoll = 0
  /\ imix = 0
  /\ nev = 0
  /\ index_coll1 = -999
  /\ sameLog = <<>>
  /\ mixLog = <<>>

Init ==
  /\ Unbooked
  /\ option \in {{p} : p \in ProcessSwitches}
  /\ ndepth \in {0, MaxDepth}
  /\ \E cfg \in CutConfigs : fConfigPCMCuts = cfg.pcm /\ fConfigPHOSCuts = cfg.phos
  /\ collisions \in Tables
  /\ v0photons = CandidateTable(collisions, "PCM", Len(collisions))
  /\ phosclusters = CandidateTable(collisions, "PHOS", Len(collisions))
  /\ call = NoCall

Next == init \/ SameEventStep \/ MixedEventBegin \/ MixedEventStep \/ MixedEventEnd

Spec == Init /\ [][Next]_vars

(***************************************************************************)
(* Booking alone: any set of process switches and any cut lists of up to   *)
(* MaxCuts names (and the default lists), no data frame.                   *)
(***************************************************************************)
CutLists(names) == SeqsUpTo(Range(names), MaxCuts) \cup {names}

InitBook ==
  /\ Unbooked
  /\ option \in SUBSET ProcessSwitches
  /\ ndepth = 10
  /\ fConfigPCMCuts \in CutLists(PCMCutNames)
  /\ fConfigPHOSCuts \in CutLists(PHOSCutNames)
  /\ collisions = <<>>
  /\ v0photons = <<>>
  /\ phosclusters = <<>>
  /\ call = NoCall

SpecBook == InitBook /\ [][init]_vars

(***************************************************************************)
(* The task on one data frame of good collisions, under any cut lists of   *)
(* up to MaxCuts names (and the default lists): empty lists, lists that    *)
(* name one cut twice, lists in any order.                                 *)
(***************************************************************************)
GoodTable == [i \in 1..MaxEvents |-> Row(GoodEvent, i)]

InitFill ==
  /\ Unbooked
  /\ option \in {{p} : p \in ProcessSwitches}
  /\ ndepth = MaxDepth
  /\ fConfigPCMCuts \in CutLists(PCMCutNames)
  /\ fConfigPHOSCuts \in CutLists(PHOSCutNames)
  /\ collisions = GoodTable
  /\ v0photons = CandidateTable(collisions, "PCM", Len(collisions))
  /\ phosclusters = CandidateTable(collisions, "PHOS", Len(collisions))
  /\ call = NoCall

SpecFill == InitFill /\ [][Next]_vars

(***************************************************************************)
(* The kinematics of a pair (lines 235-248, again at 259-272 and 331-344). *)
(* A candidate's (pt, eta, phi) is kept as its Cartesian momentum, chosen  *)
(* so that the energy of the massless four-vector is an integer.  A value  *)
(* that is a square root is kept as its signed square s * r^2, exactly:    *)
(* negating the value negates its signed square.  qout, qside and kt are   *)
(* fractions [num, den] of signed squares; a division by k12.P() = 0 has   *)
(* den = 0 and stands for the NaN it gives.                                *)
(***************************************************************************)
ISqrt(n) == CHOOSE r \in 0..n : r * r <= n /\ n < (r + 1) * (r + 1)

Norm2(x, y, z) == x * x + y * y + z * z

\* the momenta with pt > 0 whose length is an integer
Momenta ==
  {p \in [x : -MaxMom..MaxMom, y : -MaxMom..MaxMom, z : -MaxMom..MaxMom] :
     /\ <<p.x, p.y>> # <<0, 0>>
     /\ ISqrt(Norm2(p.x, p.y, p.z)) * ISqrt(Norm2(p.x, p.y, p.z)) = Norm2(p.x, p.y, p.z)}

\* ROOT::Math::PtEtaPhiMVector(g.pt(), g.eta(), g.phi(), 0.)
PtEtaPhiMVector(g) == [x |-> g.x, y |-> g.y, z |-> g.z, t |-> ISqrt(Norm2(g.x, g.y, g.z))]

Minus(v1, v2) == [x |-> v1.x - v2.x, y |-> v1.y - v2.y, z |-> v1.z - v2.z, t |-> v1.t - v2.t]

Plus(v1, v2) == [x |-> v1.x + v2.x, y |-> v1.y + v2.y, z |-> v1.z + v2.z, t |-> v1.t + v2.t]

\* signed square of M(): sqrt(M2) for M2 >= 0 and -sqrt(-M2) for a space-like vector
SignedM2(v) == v.t * v.t - Norm2(v.x, v.y, v.z)

SignedSquare(d) == IF d < 0 THEN -(d * d) ELSE d * d

\* signed square of d / sqrt(den); den = 0 is the division by zero, a NaN
Over(d, den) == [num |-> SignedSquare(d), den |-> den]

IsNaN(v) == v.den = 0

\* the out axis taken along the first candidate instead of along k12
KinematicTransformAlongFirst(g1, g2) ==
  LET v1 == PtEtaPhiMVector(g1)
      v2 == PtEtaPhiMVector(g2)
      q12 == Minus(v1, v2)
      sum == Plus(v1, v2)
      p2 == Norm2(v1.x, v1.y, v1.z)
  IN [qinv |-> -SignedM2(q12),
      qlong |-> q12.z,
      qout |-> Over(q12.x * v1.x + q12.y * v1.y + q12.z * v1.z, p2),
      qside |-> Over(q12.x * v1.y - q12.y * v1.x, p2),
      kt |-> [num |-> sum.x * sum.x + sum.y * sum.y, den |-> 4]]

KinematicTransform(g1, g2) ==
  LET v1 == PtEtaPhiMVector(g1)
      v2 == PtEtaPhiMVector(g2)
      q12 == Minus(v1, v2)
      sum == Plus(v1, v2)                        \* 2 * k12
      p2 == Norm2(sum.x, sum.y, sum.z)           \* (2 * k12.P())^2
  IN [qinv |-> -SignedM2(q12),
      qlong |-> q12.z,
      qout |-> Over(q12.x * sum.x + q12.y * sum.y + q12.z * sum.z, p2),
      qside |-> Over(q12.x * sum.y - q12.y * sum.x, p2),
      kt |-> [num |-> sum.x * sum.x + sum.y * sum.y, den |-> 4]]

(***************************************************************************)
(* The two functions on their own: one call, with its arguments drawn.     *)
(***************************************************************************)
AllCuts == {GetCut(n) : n \in Range(PCMCutNames) \cup Range(PHOSCutNames)}

\* the cuts a process function can pass for a side of the pair type; there is
\* no EMC cut in the task, so an EMC side takes any cut
CutsOfSide(subsys) ==
  IF subsys = "PCM" THEN {GetCut(n) : n \in Range(PCMCutNames)}
  ELSE IF subsys = "PHOS" THEN {GetCut(n) : n \in Range(PHOSCutNames)}
  ELSE AllCuts

SelectedPairCalls ==
  UNION {[fn : {"IsSelectedPair"}, pairtype : {t}, g1 : [q : 0..1], g2 : [q : 0..1],
          cut1 : CutsOfSide(Side1(t)), cut2 : CutsOfSide(Side2(t))] : t \in PairType}

KinematicCalls == [fn : {"KinematicTransform"}, g1 : Momenta, g2 : Momenta]

InitCall ==
  /\ Unbooked
  /\ option = {}
  /\ ndepth = 10
  /\ fConfigPCMCuts = PCMCutNames
  /\ fConfigPHOSCuts = PHOSCutNames
  /\ collisions = <<>>
  /\ v0photons = <<>>
  /\ phosclusters = <<>>
  /\ call \in SelectedPairCalls \cup KinematicCalls

CallIsSelectedPair ==
  /\ pc = "new"
  /\ call.fn = "IsSelectedPair"
  /\ call' = [fn |-> "returned", of |-> call,
              ret |-> IsSelectedPair(call.pairtype, call.g1, call.g2, call.cut1, call.cut2)]
  /\ UNCHANGED <<pc, config, booked, tables, combinations, hCollisionCounter, hs_q_same,
                 hs_q_mix, icoll, imix, nev, index_coll1, sameLog, mixLog>>

CallKinematicTransform ==
  /\ pc = "new"
  /\ call.fn = "KinematicTransform"
  /\ call' = [fn |-> "returned", of |-> call,
              ret |-> KinematicTransform(call.g1, call.g2),
              swapped |-> KinematicTransform(call.g2, call.g1)]
  /\ UNCHANGED <<pc, config, booked, tables, combinations, hCollisionCounter, hs_q_same,
                 hs_q_mix, icoll, imix, nev, index_coll1, sameLog, mixLog>>

NextCall == CallIsSelectedPair \/ CallKinematicTransform

SpecCall == InitCall /\ [][NextCall]_vars

(***************************************************************************)
(* Properties.                                                             *)
(***************************************************************************)
\* the collision (row) of an index of the table
Coll(index) == collisions[index]

\* the event pairs (log entries) that were paired with fills, of anchor a
PartnersOf(a) ==
  {n \in DOMAIN mixLog : mixLog[n].collision1 = a /\ mixLog[n].nfills > 0}

\* C1 (as claimed): in MixedEventPairing at most ndepth partner events are
\* paired with an anchor event (their candidate pairs filled into hs_q_mix).
C1_AtMostNdepthPartners ==
  \A a \in DOMAIN collisions : Cardinality(PartnersOf(a)) <= ndepth

\* the events the claim lets through: selection flag, contributors, |z| < 10
PassesEventGates(collision) ==
  collision.sel8 /\ collision.numContrib > 0 /\ Abs(collision.posZ) < 10

\* C2 (as claimed): a collision with the selection flag unset, or no
\* contributor, or not |posZ| < 10 fills no hs_q_same and is in no event pair
\* of MixedEventPairing.
C2_GatedOutEventNeverPairs ==
  /\ \A e \in Range(sameLog) : ~PassesEventGates(Coll(e.collision)) => e.fills = <<>>
  /\ \A n \in DOMAIN mixLog :
       PassesEventGates(Coll(mixLog[n].collision1))
       /\ PassesEventGates(Coll(mixLog[n].collision2))

\* C3 (as claimed): for PCM-PHOS, hs_q_mix is filled from an event pair only
\* if both collisions have the PHOS readout flag.
C3_MixedNeedsPHOSReadout ==
  "PCMPHOS" \in option =>
    \A n \in DOMAIN mixLog :
      mixLog[n].nfills > 0 =>
        /\ Coll(mixLog[n].collision1).isPHOSCPVreadout
        /\ Coll(mixLog[n].collision2).isPHOSCPVreadout

\* the candidates of the collision the same-event log entry is about
SlicedCount(e) ==
  Len(sliceBy(Photons(Side1(ThePairType)), Coll(e.collision).collisionId))

\* C4: for a symmetric pair type and a collision that passed the gates, the
\* candidate pairs visited for each configured cut are exactly the index pairs
\* i < j of the sliced list, each once, never a candidate with itself, and
\* with the same cut on both sides.
C4_SameEventStrictlyUpper ==
  \A e \in Range(sameLog) :
    (IsSymmetric(ThePairType) /\ e.stage = 4) =>
      /\ \A n \in DOMAIN e.enum :
           e.enum[n].c1 = e.enum[n].c2 /\ e.enum[n].i < e.enum[n].j
           /\ e.enum[n].g1 # e.enum[n].g2
      /\ \A c \in DOMAIN Cuts(Side1(ThePairType)) :
           LET ofCut == SelectSeq(e.enum, LAMBDA v : v.c1 = c)
               upper == {ij \in (1..SlicedCount(e)) \X (1..SlicedCount(e)) : ij[1] < ij[2]}
           IN /\ {<<ofCut[n].i, ofCut[n].j>> : n \in DOMAIN ofCut} = upper
              /\ Len(ofCut) = Cardinality(upper)

\* C4 witness: a gated-in collision of a symmetric pair type for which three or
\* more index pairs per cut were visited and some pair was filled.
C4_Witness ==
  \E e \in Range(sameLog) :
    /\ IsSymmetric(ThePairType) /\ e.stage = 4
    /\ Len(e.enum) >= 3 * Len(Cuts(Side1(ThePairType)))
    /\ Len(Cuts(Side1(ThePairType))) >= 2
    /\ e.fills # <<>>

\* C5: every event pair of MixedEventPairing is two different collisions of one
\* (vertex-z bin, multiplicity bin), the first with the smaller index, no
\* unordered pair comes twice, and every record filled into hs_q_mix has its
\* first candidate from the first and its second from the second collision.
C5_MixedPairsDistinctSameBin ==
  /\ \A n \in DOMAIN combinations :
       LET c1 == combinations[n][1]
           c2 == combinations[n][2]
       IN /\ c1.index < c2.index
          /\ c1.collisionId # c2.collisionId
          /\ BinOf(ConfVtxBins, c1.posZ) = BinOf(ConfVtxBins, c2.posZ)
          /\ BinOf(ConfMultBins, c1.multNTracksPV) = BinOf(ConfMultBins, c2.multNTracksPV)
  /\ \A n, m \in DOMAIN combinations :
       n # m => {combinations[n][1].index, combinations[n][2].index}
                  # {combinations[m][1].index, combinations[m][2].index}
  /\ \A n \in DOMAIN mixLog :
       /\ mixLog[n].collision1 = combinations[n][1].index
       /\ mixLog[n].collision2 = combinations[n][2].index
       /\ mixLog[n].from \subseteq {<<Coll(mixLog[n].collision1).collisionId,
                                      Coll(mixLog[n].collision2).collisionId>>}

\* C5 witness: two or more event pairs were iterated, one of them with fills,
\* in a table that also holds a collision of another bin.
C5_Witness ==
  /\ Len(mixLog) >= 1
  /\ \E n \in DOMAIN mixLog : mixLog[n].nfills > 0
  /\ \E i, j \in DOMAIN collisions :
       /\ PassesEventGates(Coll(i)) /\ PassesEventGates(Coll(j))
       /\ Coll(i).multNTracksPV # Coll(j).multNTracksPV

\* the lists booked below Pair/<pairname>
ListsOf(pairname) == {b \in pairLists : b[1] = pairname}

\* C6: after init the lists of an enabled symmetric pair type are exactly
\* (c, c) for c in the subsystem's cut list, those of an enabled asymmetric
\* pair type exactly the cross product of the two cut lists: three lists for
\* PCM cuts analysis,qc,nocut with PCM-PCM, two for PCM cut analysis and PHOS
\* cuts test02,test03 with PCM-PHOS.
C6_BucketsMatchCutLists ==
  pc # "new" =>
    /\ Range(fPairNames) = option
    /\ {b[1] : b \in pairLists} \subseteq option
    /\ \A p \in option :
         LET names1 == Range(IF p = "PHOSPHOS" THEN fConfigPHOSCuts ELSE fConfigPCMCuts)
             names2 == Range(IF p = "PCMPCM" THEN fConfigPCMCuts ELSE fConfigPHOSCuts)
         IN IF p = "PCMPHOS"
            THEN /\ ListsOf(p) = {<<p, c1 \o "_" \o c2>> : c1 \in names1, c2 \in names2}
                 /\ Cardinality(ListsOf(p)) = Cardinality(names1) * Cardinality(names2)
            ELSE /\ ListsOf(p) = {<<p, c \o "_" \o c>> : c \in names1}
                 /\ Cardinality(ListsOf(p)) = Cardinality(names1)
    /\ ("PCMPCM" \in option /\ fConfigPCMCuts = <<"analysis", "qc", "nocut">>) =>
         ListsOf("PCMPCM") = {<<"PCMPCM", "analysis_analysis">>, <<"PCMPCM", "qc_qc">>,
                              <<"PCMPCM", "nocut_nocut">>}
    /\ ("PCMPHOS" \in option /\ fConfigPCMCuts = <<"analysis">>
        /\ fConfigPHOSCuts = <<"test02", "test03">>) =>
         ListsOf("PCMPHOS") = {<<"PCMPHOS", "analysis_test02">>,
                               <<"PCMPHOS", "analysis_test03">>}

\* C6 witness: init has run with the three switches on, the default PCM cut
\* list and two PHOS cuts.
C6_Witness ==
  /\ pc # "new"
  /\ option = ProcessSwitches
  /\ fConfigPCMCuts = <<"analysis", "qc", "nocut">>
  /\ fConfigPHOSCuts = <<"test02", "test03">>
  /\ Cardinality(pairLists) = 11

\* the collisions iterated so far that SameEventPairing does not skip before
\* counting: all for PCM-PCM, those with the PHOS readout flag otherwise
Counted ==
  {k \in 1..icoll : ThePairType = "PCMPCM" \/ Coll(k).isPHOSCPVreadout}

Returned(fn) == call.fn = "returned" /\ call.of.fn = fn

\* C8 (as claimed): IsSelectedPair returns true only if g1 passes cut1 and g2
\* passes cut2, for each of the six pair types, and leaves the task's state
\* as it was.
C8_TrueOnlyIfBothPass ==
  Returned("IsSelectedPair") =>
    /\ call.ret => (IsSelected(call.of.cut1, call.of.g1)
                    /\ IsSelected(call.of.cut2, call.of.g2))
    /\ Unbooked

\* C8 (amended): for PCM-PCM, PHOS-PHOS and PCM-PHOS IsSelectedPair returns
\* true only if g1 passes cut1 and g2 passes cut2; for EMC-EMC, PCM-EMC and
\* PHOS-EMC it returns true whatever the candidates; the task's state is
\* left as it was.
C8_SelectedPairByType ==
  Returned("IsSelectedPair") =>
    /\ call.of.pairtype \in {"PCMPCM", "PHOSPHOS", "PCMPHOS"} =>
         (call.ret => (IsSelected(call.of.cut1, call.of.g1)
                       /\ IsSelected(call.of.cut2, call.of.g2)))
    /\ call.of.pairtype \in {"EMCEMC", "PCMEMC", "PHOSEMC"} => call.ret
    /\ Unbooked

\* C8 witness: a PCM-PHOS call with two cuts of level 1 has returned true.
C8_Witness ==
  /\ Returned("IsSelectedPair")
  /\ call.of.pairtype = "PCMPHOS"
  /\ call.ret
  /\ call.of.cut1.level = 1 /\ call.of.cut2.level = 1

\* the minimum candidate count of the pair type, of one collision
HasMinimumCandidates(collision) ==
  IF ThePairType = "PCMPCM" THEN collision.ngpcm >= 2
  ELSE IF ThePairType = "PHOSPHOS" THEN collision.ngphos >= 2
  ELSE collision.ngpcm >= 1 /\ collision.ngphos >= 1

\* nev when the loop reaches entry n + 1 of the log (now, for the last entry)
NevAfter(n) == IF n < Len(mixLog) THEN mixLog[n + 1].nev ELSE nev

\* C9: an event pair in which a collision misses the pair type's minimum
\* candidate count fills nothing and does not advance nev (which is what it
\* was, or 0 for a new anchor); nev counts the pairs of the current anchor that
\* were paired; and both collisions stay in the pool: at the end every pair of
\* filtered collisions of one bin has been iterated once.
C9_LackingPairIsSkipped ==
  /\ \A n \in DOMAIN mixLog :
       LET e == mixLog[n]
           onEntry == IF e.anchor # Coll(e.collision1).collisionId THEN 0 ELSE e.nev
       IN ~(HasMinimumCandidates(Coll(e.collision1))
            /\ HasMinimumCandidates(Coll(e.collision2)))
          => /\ e.nfills = 0
             /\ e.outcome # "paired"
             /\ NevAfter(n) = onEntry
  /\ pc \in {"mixed", "done"} =>
       nev = Cardinality({n \in DOMAIN mixLog :
                            /\ Coll(mixLog[n].collision1).collisionId = index_coll1
                            /\ mixLog[n].outcome = "paired"})
  /\ pc = "done" =>
       \A i, j \in DOMAIN filtered_collisions :
         (i < j /\ getBin(filtered_collisions[i]) = getBin(filtered_collisions[j])) =>
           Cardinality({n \in DOMAIN mixLog :
                          /\ mixLog[n].collision1 = filtered_collisions[i].index
                          /\ mixLog[n].collision2 = filtered_collisions[j].index}) = 1

\* C9 witness: with ndepth = 0 an anchor's first pair was skipped for the
\* candidate count and a later pair of the same anchor was paired and filled.
C9_Witness ==
  /\ ndepth = 0
  /\ \E n, m \in DOMAIN mixLog :
       /\ n < m
       /\ mixLog[n].collision1 = mixLog[m].collision1
       /\ mixLog[n].outcome = "count"
       /\ mixLog[m].outcome = "paired"
       /\ mixLog[m].nfills > 0

\* the negated value, for a fraction of signed squares
Negated(v) == [num |-> -v.num, den |-> v.den]

\* C10 (as claimed): for a pair with non-zero half-sum momentum,
\* KinematicTransform of (g2, g1) is (-qinv, -qlong, -qout, -qside, kt) of
\* that of (g1, g2).
C10_SwapFlipsAllFour ==
  (Returned("KinematicTransform") /\ ~IsNaN(call.ret.qout)) =>
    call.swapped = [qinv |-> -call.ret.qinv, qlong |-> -call.ret.qlong,
                    qout |-> Negated(call.ret.qout), qside |-> Negated(call.ret.qside),
                    kt |-> call.ret.kt]

\* C10 (amended): for a pair with non-zero half-sum momentum,
\* KinematicTransform of (g2, g1) is (qinv, -qlong, -qout, -qside, kt) of that
\* of (g1, g2): qlong, qout and qside change sign, kt and qinv do not, qinv
\* being the negated invariant mass of the space-like difference vector and so
\* never negative.
C10_SwapFlipsThree ==
  (Returned("KinematicTransform") /\ ~IsNaN(call.ret.qout)) =>
    /\ call.swapped = [qinv |-> call.ret.qinv, qlong |-> -call.ret.qlong,
                       qout |-> Negated(call.ret.qout), qside |-> Negated(call.ret.qside),
                       kt |-> call.ret.kt]
    /\ call.ret.qinv >= 0

\* C10 witness: a transform has returned with qinv, qlong, qout and qside all
\* different from zero.
C10_Witness ==
  /\ Returned("KinematicTransform")
  /\ ~IsNaN(call.ret.qout)
  /\ call.ret.qinv # 0 /\ call.ret.qlong # 0
  /\ call.ret.qout.num # 0 /\ call.ret.qside.num # 0

(***************************************************************************)
(* C11: every fill finds the list it is looked up in.                      *)
(***************************************************************************)
RECURSIVE SumOver(_, _)
SumOver(h, keys) ==
  IF keys = {} THEN 0
  ELSE LET b == CHOOSE k \in keys : TRUE IN h[b] + SumOver(h, keys \ {b})

\* the entries of all the histograms of h
Entries(h) == SumOver(h, DOMAIN h)

\* the key (pairtype, cut1.name, cut2.name) of a fill the history kept by its
\* cut indices
KeyOfBrief(pairtype, r) ==
  <<pairtype, GetName(Cuts(Side1(pairtype))[r.c1]) \o "_" \o
              GetName(Cuts(Side2(pairtype))[r.c2])>>

\* the same-event fills of the last collision that went to list b
SameFillsTo(pairtype, b) ==
  Cardinality({n \in DOMAIN sameLog[1].fills : KeyOfBrief(pairtype, sameLog[1].fills[n]) = b})

\* the step of SameEventPairing: every key of its fills is a booked list,
\* hs_q_same of each list grows by the fills with that key, hs_q_mix is
\* left alone
SameFillsBooked ==
  /\ \A n \in DOMAIN sameLog'[1].fills :
        KeyOfBrief(ThePairType, sameLog'[1].fills[n]) \in pairLists
  /\ \A b \in pairLists : hs_q_same'[b] = hs_q_same[b] + SameFillsTo(ThePairType, b)'
  /\ hs_q_mix' = hs_q_mix

\* the step of MixedEventPairing: every key of its fills is a booked list,
\* hs_q_mix grows by the fills, in the lists of their keys only, hs_q_same
\* is left alone
MixedFillsBooked ==
  LET last == mixLog'[Len(mixLog')]
  IN /\ last.keys \subseteq pairLists
     /\ \A b \in pairLists : IF b \in last.keys THEN hs_q_mix'[b] > hs_q_mix[b]
                                                ELSE hs_q_mix'[b] = hs_q_mix[b]
     /\ Entries(hs_q_mix') = Entries(hs_q_mix) + last.nfills
     /\ hs_q_same' = hs_q_same

\* C11: whatever pair type is enabled and whatever the cut lists are, every
\* fill of SameEventPairing and of MixedEventPairing is looked up under a key
\* (pairtype, cut1.name, cut2.name) that add_pair_histograms created in init
\* (no lookup misses), the same-event fills go to hs_q_same alone and the
\* mixed fills to hs_q_mix alone, and once init is over no list is created
\* or removed.
C11_FillsHitBookedLists ==
  [][/\ pc' # "abort"
     /\ pc # "new" =>
          /\ pairLists' = pairLists
          /\ DOMAIN hs_q_same' = pairLists
          /\ DOMAIN hs_q_mix' = pairLists
     /\ icoll' # icoll => SameFillsBooked
     /\ imix' = imix + 1 => MixedFillsBooked
     /\ (pc # "new" /\ icoll' = icoll /\ imix' # imix + 1) =>
          (hs_q_same' = hs_q_same /\ hs_q_mix' = hs_q_mix)]_vars

\* C11 witness: PCM-PHOS pairing under cut lists other than the default ones
\* has ended with entries in hs_q_same and in hs_q_mix of two lists at least,
\* all fills having found their list.
C11_Witness ==
  /\ pc = "done"
  /\ ThePairType = "PCMPHOS"
  /\ fConfigPCMCuts = <<"nocut", "analysis">>
  /\ fConfigPHOSCuts = <<"test03", "test02">>
  /\ Cardinality({b \in pairLists : hs_q_same[b] > 0 /\ hs_q_mix[b] > 0}) >= 2
  /\ Entries(hs_q_same) > 0
  /\ Entries(hs_q_mix) > 0

====
